---- MODULE Spec2Model ----
(***************************************************************************)
(* Model of the Chainlit business-plan assistant (src/main.py) and of the  *)
(* orchestrator's tool registration (src/custom_agents.py).                *)
(*                                                                         *)
(* Python values are tagged records: None is [t |-> "None"], a str is      *)
(* [t |-> "str", v |-> <<pieces>>] (a string is the concatenation of its   *)
(* pieces), a list is [t |-> "list", v |-> <<...>>] and a dict is          *)
(* [t |-> "dict", v |-> [key |-> value]].                                  *)
(*                                                                         *)
(* The handlers of one session run one at a time; every await on the       *)
(* agent runner is a separate step.  Chainlit's own UI calls (send,        *)
(* update, remove, stream_token) are taken not to raise.                   *)
(***************************************************************************)
EXTENDS Integers, Sequences, FiniteSets, TLC

VARIABLES
    pc,                   \* position of the running handler, "idle" between handlers
    session,              \* cl.user_session: conversation_history and startup_info
    conversation_history, \* main's local (the list object it appends to)
    startup_info,         \* main's local
    user_message,         \* main's local
    agent_input,          \* the input of the latest Runner.run / Runner.run_streamed
    ui,                   \* cl.Message(...).send() calls of the current handler
    raised,               \* the exception raised in the current handler, if any
    uncaught,             \* the exception that left the handler uncaught, if any
    msg,                  \* business_plan_generation: the plan message
    status_msg,           \* business_plan_generation: the status message
    current_tool,         \* business_plan_generation: current_tool
    events                \* the events consumed from result.stream_events() so far

vars == <<pc, session, conversation_history, startup_info, user_message,
          agent_input, ui, raised, uncaught, msg, status_msg, current_tool, events>>

bpgVars == <<msg, status_msg, current_tool, events>>

(* ---------------------------- bounds ---------------------------------- *)

\* longest conversation_history a turn may start from
MaxHist == 3
\* longest event stream of one business_plan_generation call
MaxEvents == 3

(* ------------------------- Python values ------------------------------ *)

PyNone == [t |-> "None"]
PyStr(s) == [t |-> "str", v |-> s]
PyList(s) == [t |-> "list", v |-> s]
PyDict(d) == [t |-> "dict", v |-> d]

\* bool(x) of an optional string: None and "" are falsy
Truthy(x) == x.t = "str" /\ Len(x.v) > 0

\* str(x) as an f-string formats it
Format(x) == IF x.t = "None" THEN <<"None">> ELSE x.v

\* needle in haystack, both strings given by their pieces
Contains(needle, hay) ==
    \E i \in 1..(Len(hay) - Len(needle) + 1) :
        SubSeq(hay, i, i + Len(needle) - 1) = needle

Fields == {"name", "idea", "target_market", "key_features"}

\* a reset that leaves out one of the four keys
EmptyInfo_MissingKey ==
    PyDict([name |-> PyNone, idea |-> PyNone, target_market |-> PyNone])

EmptyInfo ==
    PyDict([name |-> PyNone, idea |-> PyNone,
            target_market |-> PyNone, key_features |-> PyNone])

Entry(role, content) == [role |-> role, content |-> content]

\* dict.get(key, default)
DictGet(d, k, default) == IF k \in DOMAIN d THEN d[k] ELSE default

(* --------------------------- cl.user_session -------------------------- *)

\* a key that was never set
Unset == [t |-> "unset"]

\* cl.user_session.get(key, default): the default only for a missing key
SessionGet(key, default) ==
    IF session[key].t = "unset" THEN default ELSE session[key]

(* ------------------------------ inputs -------------------------------- *)

\* what the user types
UserMessages ==
    { <<"hello">>,
      <<"Name:", "Acme">>,
      <<"Name:", "Acme", "Idea:", "invoicing", "Target Market:", "freelancers",
        "Key Features:", "reminders">> }

FieldLabel(f) ==
    CASE f = "name" -> "Name:"
      [] f = "idea" -> "Idea:"
      [] f = "target_market" -> "Target Market:"
      [] f = "key_features" -> "Key Features:"

\* the startup fields a user message states
Provides(m) == {f \in Fields : \E i \in 1..Len(m) : m[i] = FieldLabel(f)}

\* the header the orchestrator's instructions prescribe for a plan
PrescribedHeader == <<"# ", "SaaS ", "Business Plan:">>

\* the marker main looks for in a response
PlanMarker == <<"# ", "Business Plan:">>

\* result.final_output of a Runner.run that returns
FinalOutputs ==
    { PyNone,
      PyStr(<<"What is the name of your startup?">>),
      PyStr(<<"# ", "Business Plan:", " Acme", "## Executive Summary">>),
      PyStr(<<"Here is the plan.", "# ", "Business Plan:", " Acme">>),
      PyStr(PrescribedHeader \o <<" Acme", "## Executive Summary">>) }

\* exceptions of the agent runner (model API errors, turn limit)
RunnerErrors == {"APIConnectionError", "MaxTurnsExceeded"}

NoExc == "none"

(* ------------------------------ messages ------------------------------ *)

WelcomeMessage == [kind |-> "welcome", content |-> <<"Welcome to the Business Plan Generator!">>]

ResponseMessage(response) == [kind |-> "response", content |-> response.v]

\* main's error message embeds str(e)
MainErrorMessage(e) ==
    [kind |-> "error",
     content |-> <<"Error:", e,
                   "Please try again or provide more details about your startup.">>]

NoMsg == [sent |-> FALSE, tokens |-> <<>>, finalized |-> FALSE]
NoStatus == [state |-> "none", content |-> <<>>]

(* ---------------------------- on_chat_start --------------------------- *)

Init ==
    /\ pc = "connect"
    /\ session = [conversation_history |-> Unset, startup_info |-> Unset]
    /\ conversation_history = PyNone
    /\ startup_info = PyNone
    /\ user_message = <<>>
    /\ agent_input = PyNone
    /\ ui = <<>>
    /\ raised = NoExc
    /\ uncaught = NoExc
    /\ msg = NoMsg
    /\ status_msg = NoStatus
    /\ current_tool = PyNone
    /\ events = <<>>

Start ==
    /\ pc = "connect"
    /\ session' = [conversation_history |-> PyList(<<>>), startup_info |-> EmptyInfo]
    /\ ui' = <<WelcomeMessage>>
    /\ pc' = "idle"
    /\ UNCHANGED <<conversation_history, startup_info, user_message, agent_input,
                   raised, uncaught, bpgVars>>

(* ------------------------------- main --------------------------------- *)

\* a reset that forgets to clear the history
ResetSession_KeepsHistory == [session EXCEPT !.startup_info = EmptyInfo]

\* the reset of both session keys
ResetSession == [conversation_history |-> PyList(<<>>), startup_info |-> EmptyInfo]

\* all([...get("name"), ...]) over the four fields
AllInfoPresent(si) ==
    \A f \in Fields : Truthy(DictGet(si.v, f, PyNone))

\* a context that replays the earlier user turns of the stored history
ContextMessage_WithHistory(si, um) ==
    [name |-> Format(DictGet(si.v, "name", PyStr(<<"Not provided">>))),
     idea |-> Format(DictGet(si.v, "idea", PyStr(<<"Not provided">>))),
     target_market |-> Format(DictGet(si.v, "target_market", PyStr(<<"Not provided">>))),
     key_features |-> Format(DictGet(si.v, "key_features", PyStr(<<"Not provided">>))),
     latest |-> IF Len(conversation_history.v) > 1
                THEN conversation_history.v[1].content \o um
                ELSE um]

\* the f-string handed to the orchestrator in the gathering phase
ContextMessage(si, um) ==
    [name |-> Format(DictGet(si.v, "name", PyStr(<<"Not provided">>))),
     idea |-> Format(DictGet(si.v, "idea", PyStr(<<"Not provided">>))),
     target_market |-> Format(DictGet(si.v, "target_market", PyStr(<<"Not provided">>))),
     key_features |-> Format(DictGet(si.v, "key_features", PyStr(<<"Not provided">>))),
     latest |-> um]

\* the test of line 179
IsPlan(response) == Contains(PlanMarker, response.v)

\* lines 118-129: read the session, append the user's entry, store the list.
\* The append is outside the try block: on a history that is not a list it
\* raises AttributeError out of the handler.
MainReceive(m) ==
    /\ pc = "idle"
    /\ LET h == SessionGet("conversation_history", PyList(<<>>))
           si == SessionGet("startup_info", EmptyInfo)
       IN /\ h.t = "list" => Len(h.v) < MaxHist
          /\ user_message' = m
          /\ startup_info' = si
          /\ ui' = <<>>
          /\ raised' = NoExc
          /\ IF h.t = "list"
                THEN /\ conversation_history' = PyList(Append(h.v, Entry("user", m)))
                     /\ session' = [session EXCEPT !.conversation_history =
                                        PyList(Append(h.v, Entry("user", m)))]
                     /\ uncaught' = NoExc
                     /\ pc' = "try"
                ELSE /\ conversation_history' = h
                     /\ session' = session
                     /\ uncaught' = "AttributeError"
                     /\ pc' = "idle"
    /\ UNCHANGED <<agent_input, bpgVars>>

\* lines 131-174 up to the await: the branch on all_info_present
MainDispatch ==
    /\ pc = "try"
    /\ IF startup_info.t # "dict"
          THEN \* None.get(...) raises inside the try: lines 197-204
               /\ raised' = "AttributeError"
               /\ ui' = Append(ui, MainErrorMessage("AttributeError"))
               /\ pc' = "idle"
               /\ UNCHANGED agent_input
          ELSE IF AllInfoPresent(startup_info)
                  THEN /\ pc' = "bpg_entry"
                       /\ UNCHANGED <<agent_input, raised, ui>>
                  ELSE /\ agent_input' = ContextMessage(startup_info, user_message)
                       /\ pc' = "run"
                       /\ UNCHANGED <<raised, ui>>
    /\ UNCHANGED <<session, conversation_history, startup_info, user_message,
                   uncaught, bpgVars>>

\* lines 176-195: Runner.run returned; a final_output that is not a string
\* makes the `in` test raise TypeError, which lines 197-204 catch
MainRunReturns(response) ==
    /\ pc = "run"
    /\ IF response.t # "str"
          THEN /\ raised' = "TypeError"
               /\ ui' = Append(ui, MainErrorMessage("TypeError"))
               /\ UNCHANGED <<session, conversation_history>>
          ELSE IF IsPlan(response)
                  THEN /\ ui' = Append(ui, ResponseMessage(response))
                       /\ session' = ResetSession
                       /\ UNCHANGED <<raised, conversation_history>>
                  ELSE /\ ui' = Append(ui, ResponseMessage(response))
                       /\ conversation_history' =
                              PyList(Append(conversation_history.v,
                                            Entry("assistant", response.v)))
                       /\ session' = [session EXCEPT !.conversation_history =
                                          conversation_history']
                       /\ UNCHANGED raised
    /\ pc' = "idle"
    /\ UNCHANGED <<startup_info, user_message, agent_input, uncaught, bpgVars>>

\* an except block that also records the error as an assistant turn
MainRunRaises_RecordsError(e) ==
    /\ pc = "run"
    /\ raised' = e
    /\ ui' = Append(ui, MainErrorMessage(e))
    /\ conversation_history' =
           PyList(Append(conversation_history.v,
                         Entry("assistant", MainErrorMessage(e).content)))
    /\ session' = [session EXCEPT !.conversation_history = conversation_history']
    /\ pc' = "idle"
    /\ UNCHANGED <<startup_info, user_message, agent_input, uncaught, bpgVars>>

\* lines 197-204: Runner.run raised
MainRunRaises(e) ==
    /\ pc = "run"
    /\ raised' = e
    /\ ui' = Append(ui, MainErrorMessage(e))
    /\ pc' = "idle"
    /\ UNCHANGED <<session, conversation_history, startup_info, user_message,
                   agent_input, uncaught, bpgVars>>

(* ----------------------------- on_chat_end ---------------------------- *)

End ==
    /\ pc = "idle"
    /\ session.conversation_history # PyNone
    /\ session' = [conversation_history |-> PyNone, startup_info |-> PyNone]
    /\ ui' = <<>>
    /\ UNCHANGED <<pc, conversation_history, startup_info, user_message, agent_input,
                   raised, uncaught, bpgVars>>

(* ----------------------- the orchestrator's tools --------------------- *)

\* the tool_name of each as_tool(...) bound to business_plan_generator_agent
RegisteredTools ==
    {"analyze_market", "define_product", "design_revenue_model",
     "plan_gtm", "project_financials", "write_summary"}

\* the order in which the instructions' PROCESS steps 1-6 list the tools
ProcessOrder ==
    <<"analyze_market", "define_product", "design_revenue_model",
      "plan_gtm", "project_financials", "write_summary">>

(* ---------------------- business_plan_generation ---------------------- *)

\* a status dict whose key for plan_gtm is spelled unlike the registered tool
tool_status_messages_Misnamed ==
    ("analyze_market" :> <<"Researching market trends and competitors...">>) @@
    ("define_product" :> <<"Defining product strategy and value proposition...">>) @@
    ("design_revenue_model" :> <<"Designing business model and pricing strategy...">>) @@
    ("plan_go_to_market" :> <<"Planning go-to-market strategy...">>) @@
    ("project_financials" :> <<"Projecting financials and unit economics...">>) @@
    ("write_summary" :> <<"Writing executive summary...">>)

\* the dict of status texts, lines 63-70
tool_status_messages ==
    ("analyze_market" :> <<"Researching market trends and competitors...">>) @@
    ("define_product" :> <<"Defining product strategy and value proposition...">>) @@
    ("design_revenue_model" :> <<"Designing business model and pricing strategy...">>) @@
    ("plan_gtm" :> <<"Planning go-to-market strategy...">>) @@
    ("project_financials" :> <<"Projecting financials and unit economics...">>) @@
    ("write_summary" :> <<"Writing executive summary...">>)

\* the fallback of tool_status_messages.get(tool_name, ...)
ExecutingText(n) == <<"Executing ", n, "...">>

\* a lookup without the fallback: an unknown tool keeps the starting text
StatusTextFor_NoFallback(n) ==
    IF n \in DOMAIN tool_status_messages THEN tool_status_messages[n]
    ELSE <<"Starting business plan generation...">>

\* tool_status_messages.get(tool_name, f"Executing {tool_name}...")
StatusTextFor(n) ==
    IF n \in DOMAIN tool_status_messages THEN tool_status_messages[n]
    ELSE ExecutingText(n)

\* name.replace('_', ' ').title()
TitleCase(n) ==
    CASE n = "analyze_market" -> "Analyze Market"
      [] n = "define_product" -> "Define Product"
      [] n = "design_revenue_model" -> "Design Revenue Model"
      [] n = "plan_gtm" -> "Plan Gtm"
      [] n = "project_financials" -> "Project Financials"
      [] n = "write_summary" -> "Write Summary"
      [] n = "tavily_search_tool" -> "Tavily Search Tool"
      [] n = "tool_called" -> "Tool Called"
      [] OTHER -> n

CompletedText(n) == <<"Completed ", TitleCase(n), "... Starting next phase...">>

StartingText == <<"Starting business plan generation...">>

\* the f-string of lines 47-53
StartupContext(si) ==
    [name |-> Format(DictGet(si.v, "name", PyStr(<<"Not provided">>))),
     idea |-> Format(DictGet(si.v, "idea", PyStr(<<"Not provided">>))),
     target_market |-> Format(DictGet(si.v, "target_market", PyStr(<<"Not provided">>))),
     key_features |-> Format(DictGet(si.v, "key_features", PyStr(<<"Not provided">>)))]

PlanErrorMessage(e) == [kind |-> "plan_error", content |-> <<"Error generating plan: ", e>>]

(* The events of result.stream_events(), by the attributes the handler     *)
(* reads: event.type; for a raw event the class or type of event.data, the *)
(* text delta and the added item's name ("" when the item has none); for a *)
(* run item event the item's type and the event's own name attribute; tool *)
(* is the tool a tool-call item or a tool-output item belongs to.          *)
Event(type, data, delta, item_name, item_type, name, tool) ==
    [type |-> type, data |-> data, delta |-> delta, item_name |-> item_name,
     item_type |-> item_type, name |-> name, tool |-> tool]

TextDelta(d) == Event("raw_response_event", "ResponseTextDeltaEvent", d, "", "", "", "")
ItemAdded(n) == Event("raw_response_event", "response.output_item.added", "", n, "", "", "")
RawOther == Event("raw_response_event", "response.created", "", "", "", "", "")
ToolCalled(t) == Event("run_item_stream_event", "", "", "", "tool_call_item", "tool_called", t)
ToolOutput(t) == Event("run_item_stream_event", "", "", "", "tool_call_output_item", "tool_output", t)
MessageOutput ==
    Event("run_item_stream_event", "", "", "", "message_output_item", "message_output_created", "")
AgentUpdated == Event("agent_updated_stream_event", "", "", "", "", "", "")

\* tool names a stream may carry: the registered ones and one that is not
StreamToolNames == RegisteredTools \cup {"tavily_search_tool"}

\* the tools whose calls and outputs the streams of the model carry
TracedTools == {"analyze_market", "define_product"}

Deltas == {"", "Plan"}

Events ==
    {TextDelta(d) : d \in Deltas}
    \cup {ItemAdded(n) : n \in StreamToolNames \cup {""}}
    \cup {RawOther, MessageOutput, AgentUpdated}
    \cup {ToolCalled(t) : t \in TracedTools}
    \cup {ToolOutput(t) : t \in TracedTools}

\* a relay that streams every text delta, the empty ones too
StreamToken_EveryDelta(m, e) ==
    IF e.type = "raw_response_event" /\ e.data = "ResponseTextDeltaEvent"
    THEN [m EXCEPT !.tokens = Append(@, e.delta)]
    ELSE m

\* lines 74-76: a non-empty text delta is streamed to the plan message
StreamToken(m, e) ==
    IF e.type = "raw_response_event" /\ e.data = "ResponseTextDeltaEvent" /\ e.delta # ""
    THEN [m EXCEPT !.tokens = Append(@, e.delta)]
    ELSE m

\* a dispatch that follows only the tools that have a status text
StartedTool_RegisteredOnly(e) ==
    IF /\ e.type = "raw_response_event"
       /\ e.data = "response.output_item.added"
       /\ e.item_name \in RegisteredTools
    THEN e.item_name
    ELSE ""

\* the name an event makes the current tool, "" if it sets none
StartedTool(e) ==
    CASE e.type = "raw_response_event" /\ e.data = "ResponseTextDeltaEvent" -> ""
      [] e.type = "raw_response_event" /\ e.data = "response.output_item.added" -> e.item_name
      [] e.type = "run_item_stream_event" /\ e.item_type = "tool_call_item" ->
            IF e.name # "" /\ e.name \in DOMAIN tool_status_messages THEN e.name ELSE ""
      [] OTHER -> ""

\* the tool a tool output is reported for
CompletedTool(e) == current_tool

\* a dispatch that reports a completion even when no tool is current
StatusAfter_CompletesUnknown(e, content) ==
    IF StartedTool(e) # "" THEN StatusTextFor(StartedTool(e))
    ELSE IF e.type = "run_item_stream_event" /\ e.item_type = "tool_call_output_item"
         THEN IF Truthy(CompletedTool(e)) THEN CompletedText(CompletedTool(e).v[1])
              ELSE CompletedText("unknown")
         ELSE content

\* the status text after the event, given the one before
StatusAfter(e, content) ==
    IF StartedTool(e) # "" THEN StatusTextFor(StartedTool(e))
    ELSE IF /\ e.type = "run_item_stream_event"
            /\ e.item_type = "tool_call_output_item"
            /\ Truthy(CompletedTool(e))
         THEN CompletedText(CompletedTool(e).v[1])
         ELSE content

\* lines 37-70: both messages sent, the streamed run started
BPG_Begin ==
    /\ pc = "bpg_entry"
    /\ msg' = [sent |-> TRUE, tokens |-> <<>>, finalized |-> FALSE]
    /\ status_msg' = [state |-> "shown", content |-> StartingText]
    /\ agent_input' = StartupContext(startup_info)
    /\ current_tool' = PyNone
    /\ events' = <<>>
    /\ pc' = "bpg_stream"
    /\ UNCHANGED <<session, conversation_history, startup_info, user_message,
                   ui, raised, uncaught>>

\* lines 73-102: one iteration of the async for
BPG_Event(e) ==
    /\ pc = "bpg_stream"
    /\ Len(events) < MaxEvents
    /\ events' = Append(events, e)
    /\ msg' = StreamToken(msg, e)
    /\ current_tool' = IF StartedTool(e) # "" THEN PyStr(<<StartedTool(e)>>) ELSE current_tool
    /\ status_msg' = [status_msg EXCEPT !.content = StatusAfter(e, @)]
    /\ UNCHANGED <<pc, session, conversation_history, startup_info, user_message,
                   agent_input, ui, raised, uncaught>>

\* lines 104-107: the stream is exhausted
BPG_StreamEnds ==
    /\ pc = "bpg_stream"
    /\ msg' = [msg EXCEPT !.finalized = TRUE]
    /\ status_msg' = [status_msg EXCEPT !.state = "removed"]
    /\ pc' = "bpg_return"
    /\ UNCHANGED <<session, conversation_history, startup_info, user_message,
                   agent_input, ui, raised, uncaught, current_tool, events>>

\* lines 109-111: the stream raises; only an error message is sent
BPG_StreamRaises(e) ==
    /\ pc = "bpg_stream"
    /\ raised' = e
    /\ ui' = Append(ui, PlanErrorMessage(e))
    /\ pc' = "bpg_return"
    /\ UNCHANGED <<session, conversation_history, startup_info, user_message,
                   agent_input, uncaught, bpgVars>>

\* lines 144-151: back in main, the reset after business_plan_generation
MainAfterGeneration ==
    /\ pc = "bpg_return"
    /\ session' = ResetSession
    /\ pc' = "idle"
    /\ UNCHANGED <<conversation_history, startup_info, user_message, agent_input,
                   ui, raised, uncaught, bpgVars>>

(* --------------------------- specifications --------------------------- *)

Next ==
    \/ Start
    \/ \E m \in UserMessages : MainReceive(m)
    \/ MainDispatch
    \/ \E r \in FinalOutputs : MainRunReturns(r)
    \/ \E e \in RunnerErrors : MainRunRaises(e)
    \/ End

Spec == Init /\ [][Next]_vars

(* business_plan_generation on its own: main has just taken the           *)
(* all_info_present branch with some startup_info whose fields are all set *)
FullInfos ==
    { PyDict([name |-> PyStr(<<"Acme">>), idea |-> PyStr(<<"invoicing">>),
              target_market |-> PyStr(<<"freelancers">>),
              key_features |-> PyStr(<<k>>)]) : k \in {"reminders", "reports"} }

GenInit ==
    /\ pc = "bpg_entry"
    /\ user_message = <<"hello">>
    /\ startup_info \in FullInfos
    /\ conversation_history = PyList(<<Entry("user", user_message)>>)
    /\ session = [conversation_history |-> conversation_history,
                  startup_info |-> startup_info]
    /\ agent_input = PyNone
    /\ ui = <<>>
    /\ raised = NoExc
    /\ uncaught = NoExc
    /\ msg = NoMsg
    /\ status_msg = NoStatus
    /\ current_tool = PyNone
    /\ events = <<>>

GenNext ==
    \/ BPG_Begin
    \/ \E e \in Events : BPG_Event(e)
    \/ BPG_StreamEnds
    \/ \E e \in RunnerErrors : BPG_StreamRaises(e)
    \/ MainAfterGeneration

GenSpec == GenInit /\ [][GenNext]_vars

(* ============================== claims ================================= *)

Last(s) == s[Len(s)]

\* the session as on_chat_end leaves it
EndedSession == [conversation_history |-> PyNone, startup_info |-> PyNone]

\* the user entries of the stored history
UserEntries ==
    IF session.conversation_history.t = "list"
    THEN {session.conversation_history.v[i].content :
             i \in {j \in 1..Len(session.conversation_history.v) :
                        session.conversation_history.v[j].role = "user"}}
    ELSE {}

(* C1: once the user's messages handled by main have stated all four       *)
(* startup fields, the session's startup_info has all four fields set to   *)
(* non-empty values (so that the next message takes the all_info_present   *)
(* branch).                                                                *)
C1_GathersFourFields ==
    (/\ pc = "idle"
     /\ \A f \in Fields : \E m \in UserEntries : f \in Provides(m))
    => (session.startup_info.t = "dict" /\ AllInfoPresent(session.startup_info))

\* what the code does instead: no handler ever stores a field
C1_NoFieldIsEverSet ==
    session.startup_info.t = "dict" =>
        \A f \in Fields : session.startup_info.v[f] = PyNone

(* C2: every exception raised while main handles a message is caught and   *)
(* answered with a message that contains the exception's text; main never  *)
(* ends with an uncaught exception.                                        *)
C2_EveryExceptionIsReported ==
    /\ uncaught = NoExc
    /\ (pc = "idle" /\ raised # NoExc) =>
           \E i \in 1..Len(ui) : Contains(<<raised>>, ui[i].content)

\* the current turn sent the orchestrator's response, recognised as a plan
PlanResponseSent ==
    \E i \in 1..Len(ui) : ui[i].kind = "response" /\ Contains(PlanMarker, ui[i].content)

\* the current turn streamed a plan message
PlanStreamed == msg.sent

(* C3: after a turn of main in which a business plan was sent, the stored  *)
(* conversation_history is the empty list (so the plan text is not in it)  *)
(* and all four startup_info fields are None.                              *)
C3_PlanTurnResetsSession ==
    (pc = "idle" /\ (PlanResponseSent \/ PlanStreamed)) =>
        /\ session.conversation_history = PyList(<<>>)
        /\ session.startup_info.t = "dict"
        /\ \A f \in Fields : session.startup_info.v[f] = PyNone

C3_Witness ==
    /\ pc = "idle"
    /\ PlanResponseSent
    /\ session.conversation_history = PyList(<<>>)
    /\ Len(conversation_history.v) > 1

\* the current turn sent a response that starts with the prescribed header
PrescribedPlanSent ==
    \E i \in 1..Len(ui) :
        /\ ui[i].kind = "response"
        /\ Len(ui[i].content) >= Len(PrescribedHeader)
        /\ SubSeq(ui[i].content, 1, Len(PrescribedHeader)) = PrescribedHeader

(* C4: a final response whose first line is the prescribed header          *)
(* '# SaaS Business Plan: [Startup Name]' is treated as a plan: it is      *)
(* sent, the session is reset, and no assistant turn is recorded.          *)
C4_PrescribedFormatIsPlan ==
    (pc = "idle" /\ PrescribedPlanSent) => session = ResetSession

WellFormedInfo(si) ==
    /\ si.t = "dict"
    /\ DOMAIN si.v = Fields
    /\ \A f \in Fields : si.v[f].t \in {"None", "str"}

WellFormedHistory(h) ==
    /\ h.t = "list"
    /\ \A i \in 1..Len(h.v) :
          /\ DOMAIN h.v[i] = {"role", "content"}
          /\ h.v[i].role \in {"user", "assistant"}

(* C5: from on_chat_start until on_chat_end, in every state, startup_info  *)
(* is a dict with exactly the keys name, idea, target_market and           *)
(* key_features, each None or a string, conversation_history is a list of  *)
(* entries with a role of 'user' or 'assistant' and a content, and the     *)
(* session holds no other key.                                             *)
C5_SessionShape ==
    (pc # "connect" /\ session # EndedSession) =>
        /\ DOMAIN session = {"conversation_history", "startup_info"}
        /\ WellFormedInfo(session.startup_info)
        /\ WellFormedHistory(session.conversation_history)

C5_Witness ==
    /\ pc = "idle"
    /\ session.conversation_history.t = "list"
    /\ \E i, j \in 1..Len(session.conversation_history.v) :
          /\ session.conversation_history.v[i].role = "user"
          /\ session.conversation_history.v[j].role = "assistant"

(* ------------------- claims on business_plan_generation ---------------- *)

IsTextDelta(e) == e.type = "raw_response_event" /\ e.data = "ResponseTextDeltaEvent"

IsToolStart(e) ==
    /\ e.type = "raw_response_event"
    /\ e.data = "response.output_item.added"
    /\ e.item_name # ""

IsToolOutput(e) ==
    e.type = "run_item_stream_event" /\ e.item_type = "tool_call_output_item"

IsNonEmptyDelta(e) == IsTextDelta(e) /\ e.delta # ""

\* the non-empty text deltas of a stream, in arrival order
NonEmptyDeltas(log) ==
    LET sel == SelectSeq(log, IsNonEmptyDelta)
    IN [i \in 1..Len(sel) |-> sel[i].delta]

\* the names of the tools a stream started, in arrival order
StartedNames(log) ==
    LET sel == SelectSeq(log, IsToolStart)
    IN [i \in 1..Len(sel) |-> sel[i].item_name]

\* the tools whose output a stream delivered, in arrival order
ReturnedNames(log) ==
    LET sel == SelectSeq(log, IsToolOutput)
    IN [i \in 1..Len(sel) |-> sel[i].tool]

IsPrefix(s, t) == Len(s) <= Len(t) /\ SubSeq(t, 1, Len(s)) = s

(* C6: exactly six specialist tools are registered, their names are the    *)
(* keys of tool_status_messages, and a started specialist tool is shown    *)
(* with its own status text, never with the 'Executing <name>' fallback.   *)
C6_SpecialistShowsOwnStatus ==
    /\ Cardinality(RegisteredTools) = 6
    /\ RegisteredTools = DOMAIN tool_status_messages
    /\ (/\ pc = "bpg_stream"
        /\ events # <<>>
        /\ IsToolStart(Last(events))
        /\ Last(events).item_name \in RegisteredTools) =>
           /\ status_msg.content = tool_status_messages[Last(events).item_name]
           /\ status_msg.content # ExecutingText(Last(events).item_name)

C6_Witness ==
    /\ pc = "bpg_stream"
    /\ Len(events) = 3
    /\ \A i \in 1..3 : IsToolStart(events[i]) /\ events[i].item_name \in RegisteredTools
    /\ Last(events) = ItemAdded("write_summary")
    /\ status_msg.content = <<"Writing executive summary...">>

(* C7: during plan generation the six specialist tools are started in the  *)
(* order analyze_market, define_product, design_revenue_model, plan_gtm,   *)
(* project_financials, write_summary, each once, and all six have returned *)
(* when the plan message is finalised.                                     *)
C7_FixedToolOrder ==
    /\ IsPrefix(StartedNames(events), ProcessOrder)
    /\ (pc = "bpg_return" /\ msg.finalized) =>
           /\ StartedNames(events) = ProcessOrder
           /\ ReturnedNames(events) = ProcessOrder

(* C7, amended: the order is only what the instructions ask of the model.  *)
(* business_plan_generation follows the tool starts in whatever order and  *)
(* number the stream delivers them (current_tool is the most recently      *)
(* started tool, None before the first) and finalises the plan message     *)
(* when the stream ends without error, whichever tools started or returned.*)
C7_ToolsRelayedAsStreamed ==
    /\ pc \in {"bpg_stream", "bpg_return"} =>
           current_tool = IF StartedNames(events) = <<>> THEN PyNone
                          ELSE PyStr(<<Last(StartedNames(events))>>)
    /\ (pc = "bpg_return" /\ raised = NoExc) =>
           (msg.finalized /\ status_msg.state = "removed")

C7_Witness ==
    /\ pc = "bpg_return"
    /\ msg.finalized
    /\ StartedNames(events) = <<"write_summary", "analyze_market">>
    /\ ReturnedNames(events) = <<"define_product">>
    /\ current_tool = PyStr(<<"analyze_market">>)

C9_StatusRemovedOnReturn ==
    pc = "bpg_return" => (status_msg.state = "removed" /\ msg.finalized)

(* C10: a tool output event for a tool T that the stream started earlier   *)
(* sets the status to 'Completed <T>', whatever other tools started or     *)
(* returned in between.                                                    *)
C10_CompletedNamesOutputTool ==
    (/\ pc = "bpg_stream"
     /\ events # <<>>
     /\ IsToolOutput(Last(events))
     /\ \E i \in 1..(Len(events) - 1) : events[i] = ItemAdded(Last(events).tool)) =>
        status_msg.content = CompletedText(Last(events).tool)

(* C11: a raw 'response.output_item.added' event whose item has a name n   *)
(* makes current_tool n and sets the status to tool_status_messages[n] if  *)
(* n is one of the six specialist tools, otherwise to 'Executing n...'.    *)
C11_ItemAddedSetsToolAndStatus ==
    [][(/\ pc = "bpg_stream"
        /\ events' # events
        /\ IsToolStart(Last(events'))) =>
           LET n == Last(events').item_name
           IN /\ current_tool' = PyStr(<<n>>)
              /\ status_msg'.state = "shown"
              /\ status_msg'.content =
                    IF n \in RegisteredTools THEN tool_status_messages[n]
                    ELSE <<"Executing ", n, "...">>
              /\ msg' = msg]_vars

C11_Witness ==
    /\ pc = "bpg_stream"
    /\ events = <<ItemAdded("plan_gtm"), ItemAdded("tavily_search_tool")>>
    /\ current_tool = PyStr(<<"tavily_search_tool">>)
    /\ status_msg.content = <<"Executing ", "tavily_search_tool", "...">>

IsToolCall(e) == e.type = "run_item_stream_event" /\ e.item_type = "tool_call_item"

(* C12: a run_item_stream_event with a tool_call_item for a call to one of *)
(* the six specialist tools makes current_tool that tool's name and sets   *)
(* the status to that tool's status text.                                  *)
C12_ToolCallItemSetsToolAndStatus ==
    (/\ pc = "bpg_stream"
     /\ events # <<>>
     /\ IsToolCall(Last(events))
     /\ Last(events).tool \in RegisteredTools) =>
        /\ current_tool = PyStr(<<Last(events).tool>>)
        /\ status_msg.content = tool_status_messages[Last(events).tool]

StoredHistory == session.conversation_history.v

(* C13: in a gathering-phase turn of main the user's entry is appended to  *)
(* conversation_history first; a response that is not recognised as a plan *)
(* is appended after it as the assistant's entry (two new entries, user    *)
(* then assistant); if the run raises, nothing more is appended (the       *)
(* history is the pre-turn history plus the user's entry); startup_info is *)
(* unchanged throughout.                                                   *)
C13_GatheringTurnHistory ==
    [][/\ (pc = "idle" /\ pc' = "try") =>
              /\ session'.conversation_history =
                     PyList(Append(StoredHistory, [role |-> "user", content |-> user_message']))
              /\ session'.startup_info = session.startup_info
       /\ (pc = "try" /\ pc' = "run") =>
              /\ session' = session
              /\ Last(StoredHistory).role = "user"
       /\ (pc = "run" /\ pc' = "idle" /\ raised' # NoExc) => session' = session
       /\ (pc = "run" /\ pc' = "idle" /\ raised' = NoExc /\ ~PlanResponseSent') =>
              /\ session'.conversation_history =
                     PyList(Append(StoredHistory,
                                   [role |-> "assistant", content |-> Last(ui').content]))
              /\ session'.startup_info = session.startup_info]_vars

\* a turn whose run raised, then a turn answered with a gathering reply
C13_Witness ==
    /\ pc = "idle"
    /\ raised = NoExc
    /\ session.conversation_history.t = "list"
    /\ Len(StoredHistory) = 3
    /\ StoredHistory[1].role = "user"
    /\ StoredHistory[2].role = "user"
    /\ StoredHistory[3].role = "assistant"
    /\ session.startup_info = EmptyInfo

\* the text of one startup_info field as the prompt shows it
FieldText(f) == IF startup_info.v[f].t = "None" THEN <<"None">> ELSE startup_info.v[f].v

\* some field of startup_info is None or empty
SomeFieldMissing ==
    \E f \in Fields : startup_info.v[f].t = "None" \/ startup_info.v[f].v = <<>>

(* C14: the input passed to the agent on a turn is a function of           *)
(* startup_info and the latest user message alone, and so is the branch    *)
(* taken: sessions that agree on both pass the same input and take the     *)
(* same branch whatever their conversation_history holds.                  *)
C14_InputIgnoresHistory ==
    /\ pc = "run" =>
          /\ SomeFieldMissing
          /\ agent_input = [name |-> FieldText("name"), idea |-> FieldText("idea"),
                            target_market |-> FieldText("target_market"),
                            key_features |-> FieldText("key_features"),
                            latest |-> user_message]
    /\ pc = "bpg_entry" => ~SomeFieldMissing
    /\ pc = "bpg_stream" =>
          /\ ~SomeFieldMissing
          /\ agent_input = [name |-> FieldText("name"), idea |-> FieldText("idea"),
                            target_market |-> FieldText("target_market"),
                            key_features |-> FieldText("key_features")]

\* a session with two earlier turns passes the input a fresh session passes
C14_Witness ==
    /\ pc = "run"
    /\ Len(conversation_history.v) = 3
    /\ conversation_history.v[1].content # <<"hello">>
    /\ agent_input = [name |-> <<"None">>, idea |-> <<"None">>,
                      target_market |-> <<"None">>, key_features |-> <<"None">>,
                      latest |-> <<"hello">>]

\* the four kinds of event the handler acts on, (a) to (d)
ActedOn(e) ==
    \/ IsNonEmptyDelta(e)
    \/ IsToolStart(e)
    \/ IsToolCall(e)
    \/ IsToolOutput(e)

(* C15: an event that is neither a non-empty text delta, nor a named       *)
(* 'response.output_item.added', nor a tool_call_item, nor a               *)
(* tool_call_output_item leaves the plan message, the status message and   *)
(* current_tool unchanged; a tool_call_output_item that arrives while      *)
(* current_tool is None does not update the status.                        *)
C15_OtherEventsChangeNothing ==
    [][(pc = "bpg_stream" /\ events' # events) =>
          /\ ~ActedOn(Last(events')) =>
                 msg' = msg /\ status_msg' = status_msg /\ current_tool' = current_tool
          /\ (IsToolOutput(Last(events')) /\ current_tool = PyNone) =>
                 status_msg' = status_msg /\ current_tool' = PyNone]_vars

C15_Witness ==
    /\ pc = "bpg_stream"
    /\ events = <<ItemAdded(""), AgentUpdated, ToolOutput("analyze_market")>>
    /\ msg.tokens = <<>>
    /\ status_msg = [state |-> "shown", content |-> StartingText]
    /\ current_tool = PyNone

====
